---------------------------- MODULE Spec2Model ----------------------------
(***************************************************************************)
(* Discovery pipeline of nucleus-platform (src/lambda/discovery/src):      *)
(* main.py drives config_generator -> inventory_runner -> data_processor   *)
(* per account.  Strings that the code concatenates or splits are          *)
(* sequences of one-character strings; enumerations (discoveryStatus,      *)
(* lastSyncStatus, program positions) are TLA+ strings.                    *)
(***************************************************************************)
EXTENDS Integers, Sequences, FiniteSets, TLC

(***************************************************************************)
(* Bounds of the model.                                                    *)
(***************************************************************************)
\* how many runs of main() (and ticks of the clock) a behaviour holds
MaxRuns == 2
\* how many calls of mark_missing_resources a behaviour holds
MaxSweeps == 2
\* how many batch_write_item calls of a behaviour may raise or leave items
\* unprocessed
MaxFaults == 4
\* a request of at most this many items may have any sub-sequence of it
\* reported unprocessed; a longer one has a suffix of it reported
SmallRequest == 2

(***************************************************************************)
(* Strings.                                                                *)
(***************************************************************************)
RECURSIVE Join(_)
\* the concatenation of a sequence of strings (an f-string)
Join(parts) ==
    IF parts = <<>> THEN <<>> ELSE Head(parts) \o Join(Tail(parts))

\* str.startswith
StartsWith(s, prefix) ==
    /\ Len(s) >= Len(prefix)
    /\ SubSeq(s, 1, Len(prefix)) = prefix

\* c in s
Contains(s, c) == \E k \in 1..Len(s) : s[k] = c

\* the whole of s, whatever c is
Whole(s, c) == s

\* s.split(c)[-1]: what follows the last c of s (s itself when it has no c)
LastSegment(s, c) ==
    IF Contains(s, c)
    THEN LET last == CHOOSE k \in 1..Len(s) :
                        /\ s[k] = c
                        /\ \A j \in (k+1)..Len(s) : s[j] # c
         IN  SubSeq(s, last + 1, Len(s))
    ELSE s

Upper ==
    <<"A", "B", "C", "D", "E", "F", "G", "H", "I", "J", "K", "L", "M",
      "N", "O", "P", "Q", "R", "S", "T", "U", "V", "W", "X", "Y", "Z">>
Lower ==
    <<"a", "b", "c", "d", "e", "f", "g", "h", "i", "j", "k", "l", "m",
      "n", "o", "p", "q", "r", "s", "t", "u", "v", "w", "x", "y", "z">>

\* str.lower, one character
LowerChar(c) ==
    IF \E k \in 1..26 : Upper[k] = c
    THEN Lower[CHOOSE k \in 1..26 : Upper[k] = c]
    ELSE c

\* resource_type.lower().replace(' ', '_')
LowerUnderscore(s) ==
    [k \in 1..Len(s) |-> IF s[k] = " " THEN "_" ELSE LowerChar(s[k])]

\* the characters of the keys, in code-point order
Ascii ==
    <<"#", "-", ".", "/", "0", "1", "2", "3", "4", "5", "6", "7", "8", "9",
      ":", "A", "B", "C", "D", "E", "F", "G", "H", "I", "J", "K", "L", "M",
      "N", "O", "P", "Q", "R", "S", "T", "U", "V", "W", "X", "Y", "Z", "_",
      "a", "b", "c", "d", "e", "f", "g", "h", "i", "j", "k", "l", "m", "n",
      "o", "p", "q", "r", "s", "t", "u", "v", "w", "x", "y", "z">>

Digit == <<"0", "1", "2", "3", "4", "5", "6", "7", "8", "9">>

s_arn_colon == <<"a", "r", "n", ":">>
s_arn_aws == <<"a", "r", "n", ":", "a", "w", "s", ":">>
s_unknown == <<"u", "n", "k", "n", "o", "w", "n">>
s_ACCOUNT == <<"A", "C", "C", "O", "U", "N", "T", "#">>
s_INVENTORY == <<"I", "N", "V", "E", "N", "T", "O", "R", "Y", "#">>
s_TYPE_INVENTORY ==
    <<"T", "Y", "P", "E", "#", "I", "N", "V", "E", "N", "T", "O", "R", "Y">>
s_REGION == <<"R", "E", "G", "I", "O", "N", "#">>
s_RESOURCE_TYPE ==
    <<"R", "E", "S", "O", "U", "R", "C", "E", "_", "T", "Y", "P", "E", "#">>
s_METADATA == <<"M", "E", "T", "A", "D", "A", "T", "A">>
s_raw == <<"r", "a", "w", "/">>
s_inventory_json ==
    <<"/", "i", "n", "v", "e", "n", "t", "o", "r", "y", ".", "j", "s", "o",
      "n">>
s_Name == <<"N", "a", "m", "e">>
s_us_east_1 == <<"u", "s", "-", "e", "a", "s", "t", "-", "1">>
s_us_west_2 == <<"u", "s", "-", "w", "e", "s", "t", "-", "2">>

(***************************************************************************)
(* Field names of provider responses and the catalog's names.              *)
(***************************************************************************)
k_InstanceId == <<"I", "n", "s", "t", "a", "n", "c", "e", "I", "d">>
k_DBInstanceIdentifier ==
    <<"D", "B", "I", "n", "s", "t", "a", "n", "c", "e", "I", "d", "e",
      "n", "t", "i", "f", "i", "e", "r">>
k_FunctionName ==
    <<"F", "u", "n", "c", "t", "i", "o", "n", "N", "a", "m", "e">>
k_BucketName == <<"B", "u", "c", "k", "e", "t", "N", "a", "m", "e">>
k_AutoScalingGroupName ==
    <<"A", "u", "t", "o", "S", "c", "a", "l", "i", "n", "g", "G", "r",
      "o", "u", "p", "N", "a", "m", "e">>
k_LoadBalancerArn ==
    <<"L", "o", "a", "d", "B", "a", "l", "a", "n", "c", "e", "r", "A",
      "r", "n">>
k_TopicArn == <<"T", "o", "p", "i", "c", "A", "r", "n">>
k_QueueUrl == <<"Q", "u", "e", "u", "e", "U", "r", "l">>
k_FileSystemId ==
    <<"F", "i", "l", "e", "S", "y", "s", "t", "e", "m", "I", "d">>
k_Name == <<"N", "a", "m", "e">>
k_Tags == <<"T", "a", "g", "s">>
k_TagList == <<"T", "a", "g", "L", "i", "s", "t">>
k_State == <<"S", "t", "a", "t", "e">>
k_DBInstanceStatus ==
    <<"D", "B", "I", "n", "s", "t", "a", "n", "c", "e", "S", "t", "a",
      "t", "u", "s">>
k_Status == <<"S", "t", "a", "t", "u", "s">>
k_Key == <<"K", "e", "y">>
k_Value == <<"V", "a", "l", "u", "e">>
k_Instances == <<"I", "n", "s", "t", "a", "n", "c", "e", "s">>
k_Code == <<"C", "o", "d", "e">>

id_keys ==
    <<k_InstanceId,
      k_DBInstanceIdentifier,
      <<"C", "l", "u", "s", "t", "e", "r", "I", "d", "e", "n", "t", "i", "f",
        "i", "e", "r">>,
      k_FunctionName,
      k_BucketName,
      <<"V", "o", "l", "u", "m", "e", "I", "d">>,
      <<"V", "p", "c", "I", "d">>,
      <<"S", "u", "b", "n", "e", "t", "I", "d">>,
      <<"G", "r", "o", "u", "p", "I", "d">>,
      <<"K", "e", "y", "I", "d">>,
      k_AutoScalingGroupName,
      k_LoadBalancerArn,
      k_TopicArn,
      k_QueueUrl,
      k_FileSystemId,
      <<"N", "a", "t", "G", "a", "t", "e", "w", "a", "y", "I", "d">>,
      <<"D", "i", "s", "t", "r", "i", "b", "u", "t", "i", "o", "n", "I",
        "d">>>>
arn_keys ==
    <<<<"A", "r", "n">>,
      <<"A", "R", "N">>,
      <<"F", "u", "n", "c", "t", "i", "o", "n", "A", "r", "n">>,
      <<"D", "B", "I", "n", "s", "t", "a", "n", "c", "e", "A", "r", "n">>,
      k_LoadBalancerArn,
      k_TopicArn,
      k_QueueUrl,
      <<"F", "i", "l", "e", "S", "y", "s", "t", "e", "m", "A", "r", "n">>,
      <<"K", "e", "y", "A", "r", "n">>>>
name_keys ==
    <<k_Name,
      k_DBInstanceIdentifier,
      k_FunctionName,
      k_BucketName,
      k_AutoScalingGroupName,
      <<"L", "o", "a", "d", "B", "a", "l", "a", "n", "c", "e", "r", "N", "a",
        "m", "e">>,
      k_FileSystemId>>
s_EC2Instances ==
    <<"E", "C", "2", "I", "n", "s", "t", "a", "n", "c", "e", "s">>
s_ec2 == <<"e", "c", "2">>
s_LambdaFunctions ==
    <<"L", "a", "m", "b", "d", "a", "F", "u", "n", "c", "t", "i", "o",
      "n", "s">>
s_lambda == <<"l", "a", "m", "b", "d", "a">>

(***************************************************************************)
(* Python values of a provider response: a str, a list, a dict (a function *)
(* whose domain is the set of its keys) or anything else.                  *)
(***************************************************************************)
PyStr(s) == [kind |-> "str", s |-> s]
PyList(l) == [kind |-> "list", l |-> l]
PyDict(d) == [kind |-> "dict", d |-> d]
PyOther == [kind |-> "other"]

\* the value a field holds: a str is kept as its characters
Val(v) == IF v.kind = "str" THEN v.s ELSE v

\* dict.get(k, default)
Get(d, k, default) == IF k \in DOMAIN d THEN d[k] ELSE default

\* bool(v) of a str or a mapping: empty is false
Truthy(v) == v # <<>>

\* for key in keys: if key in d: ...; break -- the first key of keys in d
FirstKey(keys, d) ==
    LET hits == {i \in 1..Len(keys) : keys[i] \in DOMAIN d}
    IN  IF hits = {} THEN 0
        ELSE CHOOSE i \in hits : \A j \in hits : i <= j

\* resource.get('Tags', resource.get('TagList', []))
TagsOf(d) == Get(d, k_Tags, Get(d, k_TagList, PyList(<<>>)))

\* the name after the loop over name_keys (lines 164-168)
NameFromKeys(d) ==
    LET i == FirstKey(name_keys, d)
    IN  IF i = 0 THEN <<>> ELSE Val(d[name_keys[i]])

\* the first tag whose Key is 'Name' (lines 174-177); 0 when there is none
FirstNameTag(l) ==
    LET hits == {i \in 1..Len(l) :
                    /\ l[i].kind = "dict"
                    /\ Get(l[i].d, k_Key, PyOther) = PyStr(s_Name)}
    IN  IF hits = {} THEN 0
        ELSE CHOOSE i \in hits : \A j \in hits : i <= j

\* tag.get on a tag that is no dict raises AttributeError (line 175): the
\* loop reaches such a tag when it comes before the first Name tag
ExtractRaises(resource) ==
    /\ resource.kind = "dict"
    /\ ~Truthy(NameFromKeys(resource.d))
    /\ TagsOf(resource.d).kind = "list"
    /\ LET l == TagsOf(resource.d).l
           n == FirstNameTag(l)
       IN  \E i \in 1..Len(l) :
              /\ l[i].kind # "dict"
              /\ (n = 0 \/ i < n)

\* {tag.get('Key', ''): tag.get('Value', '') for tag in tags
\*  if isinstance(tag, dict)}: a later tag of the same key wins
TagsFromList(l) ==
    LET dicts == {i \in 1..Len(l) : l[i].kind = "dict"}
        keyOf(i) == Val(Get(l[i].d, k_Key, PyStr(<<>>)))
        keys == {keyOf(i) : i \in dicts}
        lastOf(k) == CHOOSE i \in dicts :
                        /\ keyOf(i) = k
                        /\ \A j \in dicts : keyOf(j) = k => j <= i
    IN  [k \in keys |-> Val(Get(l[lastOf(k)].d, k_Value, PyStr(<<>>)))]

\* lines 180-184
StateOf(d) ==
    LET state == Get(d, k_State,
                     Get(d, k_DBInstanceStatus, Get(d, k_Status, PyDict(<<>>))))
    IN  IF state.kind = "dict"
        THEN Val(Get(state.d, k_Name, Get(state.d, k_Code, PyStr(s_unknown))))
        ELSE IF state.kind = "str" THEN state.s
        ELSE s_unknown

\* lines 124-197
extract_resource_identifiers(resource, resource_type, region) ==
    IF resource.kind = "str"
    THEN LET s == resource.s
             arn == StartsWith(s, s_arn_colon)
             id == IF arn
                   THEN IF Contains(s, "/") THEN LastSegment(s, "/")
                        ELSE LastSegment(s, ":")
                   ELSE s
         IN  [resourceId |-> id,
              resourceArn |-> IF arn THEN s ELSE <<>>,
              name |-> id, state |-> s_unknown, tags |-> <<>>]
    ELSE IF resource.kind # "dict"
    THEN [resourceId |-> <<>>, resourceArn |-> <<>>, name |-> <<>>,
          state |-> s_unknown, tags |-> <<>>]
    ELSE LET d == resource.d
             i == FirstKey(id_keys, d)
             a == FirstKey(arn_keys, d)
             id == IF i = 0 THEN <<>> ELSE Val(d[id_keys[i]])
             tags == TagsOf(d)
             n == IF tags.kind = "list" THEN FirstNameTag(tags.l) ELSE 0
             name1 == NameFromKeys(d)
             name2 == IF ~Truthy(name1) /\ n # 0
                      THEN Val(Get(tags.l[n].d, k_Value, PyStr(<<>>)))
                      ELSE name1
         IN  [resourceId |-> id,
              resourceArn |-> IF a = 0 THEN <<>> ELSE Val(d[arn_keys[a]]),
              name |-> IF ~Truthy(name2) THEN id ELSE name2,
              state |-> StateOf(d),
              tags |-> IF tags.kind = "list" THEN TagsFromList(tags.l)
                       ELSE IF tags.kind = "dict"
                            THEN [k \in DOMAIN tags.d |-> Val(tags.d[k])]
                            ELSE <<>>]

\* lines 100-108: the resource_data of one raw item
resource_data(resource, resource_type, region, service_name) ==
    LET ids == extract_resource_identifiers(resource, resource_type, region)
    IN  [resourceType |-> LowerUnderscore(resource_type),
         region |-> region,
         service |-> service_name,
         rawData |-> resource,
         resourceId |-> ids.resourceId,
         resourceArn |-> ids.resourceArn,
         name |-> ids.name,
         state |-> ids.state,
         tags |-> ids.tags]

(***************************************************************************)
(* data_processor.py: the pure parts.                                      *)
(***************************************************************************)
\* ticks of the clock in a day: now.strftime('%Y/%m/%d') changes every
\* DayLen ticks, now.isoformat() every tick
DayLen == 2

\* now.isoformat()
isoformat(now) ==
    <<Digit[(now \div DayLen) + 1], "T", Digit[(now % DayLen) + 1]>>

\* now.strftime('%Y/%m/%d')
strftime(now) == <<Digit[(now \div DayLen) + 1]>>

\* a resource is a record; resource.get(f, default)
RGet(resource, f, default) ==
    IF f \in DOMAIN resource THEN resource[f] ELSE default

\* a pseudo-ARN that leaves the region and the account out
short_arn(resource, account_id) ==
    IF Truthy(RGet(resource, "resourceArn", <<>>))
    THEN resource.resourceArn
    ELSE Join(<<s_arn_aws,
                RGet(resource, "service", s_unknown), <<":">>,
                RGet(resource, "resourceType", s_unknown), <<"/">>,
                RGet(resource, "resourceId", s_unknown)>>)

\* lines 10-21
generate_resource_arn(resource, account_id) ==
    IF Truthy(RGet(resource, "resourceArn", <<>>))
    THEN resource.resourceArn
    ELSE Join(<<s_arn_aws,
                RGet(resource, "service", s_unknown), <<":">>,
                RGet(resource, "region", s_unknown), <<":">>,
                account_id, <<":">>,
                RGet(resource, "resourceType", s_unknown), <<"/">>,
                RGet(resource, "resourceId", s_unknown)>>)

\* one partition for every account
pk_shared(account_id) == s_ACCOUNT

\* f'ACCOUNT#{account_id}'
pk_of(account_id) == s_ACCOUNT \o account_id

\* f'INVENTORY#{resource_type}#{resource_arn}'
sk_of(resource_type, resource_arn) ==
    Join(<<s_INVENTORY, resource_type, <<"#">>, resource_arn>>)

\* f"raw/{date_prefix}/{account_id}/inventory.json"
s3_key_of(now, account_id) ==
    Join(<<s_raw, strftime(now), <<"/">>, account_id, s_inventory_json>>)

\* the keys of a resource that are not metadata (lines 107-108)
NotMetadata ==
    {"rawData", "resourceType", "resourceId", "resourceArn", "name",
     "region", "state", "tags", "service"}

\* the status of a row the sweep has updated, kept by a write that would
\* not set its own
StaleStatus == "missing"

\* the discoveryStatus an item is written with (line 98)
WrittenStatus == "active"

\* lines 72-110: the DynamoDB item of one resource
Item(resource, account_id, timestamp) ==
    LET resource_arn == generate_resource_arn(resource, account_id)
        resource_type == RGet(resource, "resourceType", s_unknown)
        resource_id == RGet(resource, "resourceId", s_unknown)
        name == RGet(resource, "name", resource_id)
        region == RGet(resource, "region", s_unknown)
        state == RGet(resource, "state", s_unknown)
        tags == RGet(resource, "tags", <<>>)
        metadata == DOMAIN resource \ NotMetadata
        item == [pk |-> pk_of(account_id),
                 sk |-> sk_of(resource_type, resource_arn),
                 gsi1pk |-> s_TYPE_INVENTORY,
                 gsi1sk |->
                     Join(<<resource_type, <<"#">>, region, <<"#">>, name>>),
                 gsi2pk |-> s_REGION \o region,
                 gsi2sk |-> Join(<<resource_type, <<"#">>, timestamp>>),
                 gsi3pk |-> s_RESOURCE_TYPE \o resource_type,
                 gsi3sk |-> Join(<<account_id, <<"#">>, resource_id>>),
                 resourceId |-> resource_id,
                 resourceArn |-> resource_arn,
                 resourceType |-> resource_type,
                 name |-> name,
                 region |-> region,
                 state |-> state,
                 accountId |-> account_id,
                 lastDiscoveredAt |-> timestamp,
                 discoveryStatus |-> WrittenStatus]
        withTags == IF Truthy(tags) THEN ("tags" :> tags) @@ item ELSE item
    IN  IF metadata # {}
        THEN ("metadata" :> [k \in metadata |-> resource[k]]) @@ withTags
        ELSE withTags

\* the primary key of an item
KeyOf(item) == <<item.pk, item.sk>>

(***************************************************************************)
(* config_generator.py                                                     *)
(***************************************************************************)
\* the catalog: the first two entries of DEFAULT_RESOURCE_SHEETS
DEFAULT_RESOURCE_SHEETS ==
    <<[name |-> s_EC2Instances, service |-> s_ec2,
       function |-> "describe_instances", result_key |-> "Reservations"],
      [name |-> s_LambdaFunctions, service |-> s_lambda,
       function |-> "list_functions", result_key |-> "Functions"]>>

DEFAULT_REGIONS ==
    <<s_us_east_1,
      s_us_west_2,
      <<"e", "u", "-", "w", "e", "s", "t", "-", "1">>,
      <<"a", "p", "-", "s", "o", "u", "t", "h", "-", "1">>>>

\* generate_inventory_config: the regions of the account (a list of
\* DynamoDB {'S': region} items is unwrapped) and the catalog
generate_inventory_config(account) ==
    LET regions == RGet(account, "regions", DEFAULT_REGIONS)
    IN  [inventories |->
            <<[aws |-> [region |->
                          IF /\ Truthy(regions)
                             /\ DOMAIN regions[1] = {"S"}
                          THEN [k \in 1..Len(regions) |-> regions[k].S]
                          ELSE regions],
               sheets |-> DEFAULT_RESOURCE_SHEETS]>>]

(***************************************************************************)
(* The account registry main.get_active_accounts reads, and what the       *)
(* provider may answer to one call.                                        *)
(***************************************************************************)
s_acct_A == <<"1", "1", "1", "1", "2", "2", "2", "2", "3", "3", "3", "3">>
s_acct_B == <<"4", "4", "4", "4", "5", "5", "5", "5", "6", "6", "6", "6">>
s_role_B == <<"a", "r", "n", ":", "r", "o", "l", "e", "/", "B">>
s_i_abc == <<"i", "-", "a", "b", "c">>
s_web_1 == <<"w", "e", "b", "-", "1">>
s_arn_c1 == <<"a", "r", "n", ":", "e", "c", "s", ":", "c", "/", "c", "1">>

\* lines 32-37: an account row without role_arn gives roleArn '', one
\* without regions gives [{'S': 'us-east-1'}]
account_A ==
    [accountId |-> s_acct_A, accountName |-> <<"A">>, roleArn |-> <<>>,
     regions |-> <<[S |-> s_us_east_1]>>]
account_B ==
    [accountId |-> s_acct_B, accountName |-> <<"B">>, roleArn |-> s_role_B,
     regions |-> <<[S |-> s_us_east_1], [S |-> s_us_west_2]>>]

\* raw items a call may return
raw_arn == PyStr(s_arn_c1)
raw_instance == PyDict(k_InstanceId :> PyStr(s_i_abc))
raw_tagged ==
    PyDict((k_InstanceId :> PyStr(s_web_1)) @@
           (k_Tags :> PyList(<<PyDict((k_Key :> PyStr(s_Name)) @@
                                      (k_Value :> PyStr(s_web_1)))>>)))
\* a structured item whose tag list holds a bare string
raw_badtags ==
    PyDict((k_InstanceId :> PyStr(s_i_abc)) @@
           (k_Tags :> PyList(<<PyStr(s_Name)>>)))

\* a reservation of describe_instances, holding the two instances
raw_reservation ==
    PyDict(k_Instances :> PyList(<<raw_tagged, raw_instance>>))
\* bare strings: ARNs that end in a path, in a path with a colon in it, in
\* a colon-delimited part; and one that is no ARN, with both delimiters
s_arn_path == <<"a", "r", "n", ":", "s", "/", "p">>
s_arn_path_colon == <<"a", "r", "n", ":", "s", "/", "p", ":", "3">>
s_arn_colon_only == <<"a", "r", "n", ":", "s", ":", "q">>
s_no_arn == <<"u", "/", "v", ":", "w">>
raw_strings ==
    PyList(<<PyStr(s_arn_path), PyStr(s_arn_path_colon),
             PyStr(s_arn_colon_only), PyStr(s_no_arn)>>)
\* structured items: a function with a name field and a Name tag, an
\* instance whose tags are a list under TagList, and one whose tags are a
\* direct mapping
raw_named ==
    PyList(<<PyDict((k_FunctionName :> PyStr(<<"f">>)) @@
                    (k_Tags :>
                        PyList(<<PyDict((k_Key :> PyStr(s_Name)) @@
                                        (k_Value :> PyStr(s_web_1)))>>))),
             PyDict((k_InstanceId :> PyStr(s_i_abc)) @@
                    (k_TagList :>
                        PyList(<<PyDict((k_Key :> PyStr(s_Name)) @@
                                        (k_Value :> PyStr(s_web_1)))>>))),
             PyDict((k_InstanceId :> PyStr(s_i_abc)) @@
                    (k_Tags :> PyDict(s_Name :> PyStr(s_web_1))))>>)

\* data_processor.py line 115
batch_size == 25

\* a page of n table names
raw_page(n) == PyList([k \in 1..n |-> PyStr(<<"t", Ascii[k]>>)])

\* What the provider answers to one (region, resourceType) call:
\*   client   session.client succeeds
\*   method   the client has the method (getattr finds it)
\*   pages    the values of result_key in the pages the paginator yields
\*   paged    TRUE: the paginator ends after them; FALSE: it raises after
\*            them (with no page: the call has no paginated form)
\*   single_ok, single   the non-paginated call returns result_key = single,
\*            or raises
Answer(client, method, pages, paged, single_ok, single) ==
    [client |-> client, method |-> method, pages |-> pages, paged |-> paged,
     single_ok |-> single_ok, single |-> single]

ProviderAnswers ==
    <<Answer(FALSE, FALSE, <<>>, FALSE, FALSE, PyOther),
      Answer(TRUE, FALSE, <<>>, FALSE, FALSE, PyOther),
      Answer(TRUE, TRUE, <<PyList(<<>>)>>, TRUE, FALSE, PyOther),
      Answer(TRUE, TRUE, <<PyList(<<raw_arn>>)>>, TRUE, FALSE, PyOther),
      Answer(TRUE, TRUE, <<PyList(<<raw_arn>>), PyList(<<raw_instance>>)>>,
             TRUE, FALSE, PyOther),
      Answer(TRUE, TRUE, <<>>, FALSE, TRUE, PyList(<<raw_instance>>)),
      Answer(TRUE, TRUE, <<>>, FALSE, FALSE, PyOther),
      Answer(TRUE, TRUE, <<PyList(<<raw_arn, raw_badtags>>)>>, TRUE, FALSE,
             PyOther),
      Answer(TRUE, TRUE, <<raw_page(batch_size)>>, TRUE, FALSE, PyOther),
      Answer(TRUE, TRUE, <<raw_page(batch_size + 1)>>, TRUE, FALSE, PyOther),
      Answer(TRUE, TRUE, <<PyList(<<raw_reservation>>)>>, TRUE, FALSE,
             PyOther),
      Answer(TRUE, TRUE, <<raw_strings, PyStr(s_i_abc)>>, TRUE, FALSE,
             PyOther),
      Answer(TRUE, TRUE, <<PyList(<<raw_arn>>)>>, FALSE, TRUE,
             PyList(<<raw_arn, raw_instance>>)),
      Answer(TRUE, TRUE, <<raw_named>>, TRUE, FALSE, PyOther)>>

\* What a behaviour is about: the registry, how many runs of main, calls of
\* mark_missing_resources and faulty batch_write_item calls it holds, and
\* which of ProviderAnswers the provider gives:
\*   one account, every call-level outcome, every pattern of faulty writes;
\*   one account scanned again and again, resources coming and going;
\*   two accounts, the first with a role to assume and two regions, swept
\*     again and again;
\*   one account with more resources than a batch holds;
\*   one account whose calls return a reservation of two instances, bare
\*     strings and a scalar, a page and then, the paginator having raised,
\*     the whole collection from the single call, or structured items
\*     named by a field, by a tag of a list, by a tag of a mapping;
\*   no account.
Scenarios ==
    {[registry |-> <<account_A>>, runs |-> 1, sweeps |-> 0,
      faults |-> MaxFaults, answers |-> 1..8],
     [registry |-> <<account_A>>, runs |-> MaxRuns, sweeps |-> 1,
      faults |-> 1, answers |-> {3, 6}],
     [registry |-> <<account_B, account_A>>, runs |-> 1,
      sweeps |-> MaxSweeps, faults |-> 0, answers |-> {1, 4}],
     [registry |-> <<account_A>>, runs |-> 1, sweeps |-> 0,
      faults |-> MaxFaults, answers |-> {3, 9, 10}],
     [registry |-> <<account_A>>, runs |-> 1, sweeps |-> 0, faults |-> 0,
      answers |-> {3, 11, 12, 13, 14}],
     [registry |-> <<>>, runs |-> 1, sweeps |-> 0, faults |-> 0,
      answers |-> {}]}

(***************************************************************************)
(* State.                                                                  *)
(***************************************************************************)
VARIABLES
    clock,               \* the wall clock, in ticks
    table,               \* the inventory table: primary key -> item
    bucket,              \* the inventory bucket: object key -> body
    app_table,           \* the app table: pk -> the account's sync status
    registry,            \* the accounts get_active_accounts returns
    answers,             \* the positions in ProviderAnswers the provider uses
    runs_left,           \* runs of main() still to start
    sweeps_left,         \* calls of mark_missing_resources still to start
    faults_left,         \* batch_write_item calls that may still raise or
                         \*   leave items unprocessed
    pc,                  \* where the program is
    accounts,            \* main: the accounts of this run
    idx,                 \* main: the position of the account being scanned
    total_resources,
    successful_accounts,
    failed_accounts,
    start_time,
    region_i,            \* run_inventory_scan: position in regions
    sheet_i,             \* run_inventory_scan: position in sheets
    all_resources,       \* run_inventory_scan: the list it returns
    now,                 \* process_and_store_resources: now
    batch_i,             \* process_and_store_resources: i of the batch loop
    unprocessed,         \* positions in items_to_write left unprocessed
    retry_count,
    resource_count,      \* main: what process_and_store_resources returned
    sweep,               \* mark_missing_resources: its arguments and locals
    scan_log,            \* history: what each pair of the latest scan came
                         \*   to, and the answer (in ProviderAnswers) it got
    calls,               \* history: the batch_write_item calls of this persist,
                         \*   summed up (see NoCalls)
    before               \* history: table and bucket when the operation began

vars ==
    <<clock, table, bucket, app_table, registry, answers, runs_left,
      sweeps_left, faults_left, pc,
      accounts, idx, total_resources, successful_accounts, failed_accounts,
      start_time, region_i, sheet_i, all_resources, now, batch_i,
      unprocessed, retry_count, resource_count, sweep, scan_log, calls,
      before>>

durable == <<table, bucket, app_table>>
environment == <<registry, answers>>
budget == <<runs_left, sweeps_left, faults_left>>
main_locals ==
    <<accounts, idx, total_resources, successful_accounts, failed_accounts,
      start_time>>
scan_locals == <<region_i, sheet_i, all_resources, scan_log>>
persist_locals == <<now, batch_i, unprocessed, retry_count, calls>>

\* n         batch_write_item calls so far
\* in_batch  those of the current batch
\* batches   first calls of a batch so far
\* initial   the requests of those first calls, one after the other
\* last      the request of the latest call
\* accepted  the positions of the items a response has accepted so far
\* errors    the i of the batches whose exception line 135 has printed
\* dropped   the positions still unprocessed when their batch's loop ended
NoCalls ==
    [n |-> 0, in_batch |-> 0, batches |-> 0, initial |-> <<>>, last |-> <<>>,
     accepted |-> {}, errors |-> {}, dropped |-> {}]

NoBefore == [table |-> <<>>, bucket |-> <<>>]

NoSweep ==
    [account_id |-> <<>>, discovered_arns |-> {}, existing_resources |-> <<>>,
     k |-> 0, timestamp |-> <<>>, missing_count |-> 0, result |-> "none"]

\* the state after start-up: empty stores, nothing running
Init ==
    /\ clock = 0
    /\ table = <<>>
    /\ bucket = <<>>
    /\ app_table = <<>>
    /\ \E scenario \in Scenarios :
          /\ registry = scenario.registry
          /\ answers = scenario.answers
          /\ runs_left = scenario.runs
          /\ sweeps_left = scenario.sweeps
          /\ faults_left = scenario.faults
    /\ pc = "idle"
    /\ accounts = <<>>
    /\ idx = 0
    /\ total_resources = 0
    /\ successful_accounts = 0
    /\ failed_accounts = 0
    /\ start_time = 0
    /\ region_i = 0
    /\ sheet_i = 0
    /\ all_resources = <<>>
    /\ now = 0
    /\ batch_i = 0
    /\ unprocessed = <<>>
    /\ retry_count = 0
    /\ resource_count = 0
    /\ sweep = NoSweep
    /\ scan_log = <<>>
    /\ calls = NoCalls
    /\ before = NoBefore

(***************************************************************************)
(* main.py                                                                 *)
(***************************************************************************)
account == accounts[idx]
account_id == account.accountId
role_arn == RGet(account, "roleArn", <<>>)
config == generate_inventory_config(account)
regions == config.inventories[1].aws.region
sheets == config.inventories[1].sheets

\* the row set as after a success, whatever the status given
update_as_success(rows, acct, status, count, duration_ms) ==
    LET key == <<pk_of(acct), s_METADATA>>
        row == [lastSyncedAt |-> isoformat(clock),
                lastSyncStatus |-> "success",
                lastSyncResourceCount |-> count,
                lastSyncDurationMs |-> duration_ms]
    IN  [k \in DOMAIN rows \cup {key} |-> IF k = key THEN row ELSE rows[k]]

\* update_account_sync_status: SET of the four attributes on the row
\* (ACCOUNT#<account_id>, METADATA)
update_account_sync_status(rows, acct, status, count, duration_ms) ==
    LET key == <<pk_of(acct), s_METADATA>>
        row == [lastSyncedAt |-> isoformat(clock),
                lastSyncStatus |-> status,
                lastSyncResourceCount |-> count,
                lastSyncDurationMs |-> duration_ms]
    IN  [k \in DOMAIN rows \cup {key} |-> IF k = key THEN row ELSE rows[k]]

\* main's and its callees' locals once main is over
Forgotten ==
    /\ total_resources' = 0
    /\ successful_accounts' = 0
    /\ failed_accounts' = 0
    /\ start_time' = 0
    /\ region_i' = 0
    /\ sheet_i' = 0
    /\ all_resources' = <<>>
    /\ scan_log' = <<>>
    /\ now' = 0
    /\ batch_i' = 0
    /\ unprocessed' = <<>>
    /\ retry_count' = 0
    /\ calls' = NoCalls
    /\ resource_count' = 0
    /\ before' = NoBefore

\* lines 96-113: the accounts of the run; none ends the run at once
StartMain ==
    /\ pc \in {"idle", "crashed"}
    /\ runs_left > 0
    /\ runs_left' = runs_left - 1
    /\ accounts' = IF registry = <<>> THEN <<>> ELSE registry
    /\ idx' = IF registry = <<>> THEN 0 ELSE 1
    /\ pc' = IF registry = <<>> THEN "idle" ELSE "loop"
    /\ Forgotten
    /\ sweep' = NoSweep
    /\ UNCHANGED <<clock, durable, environment, sweeps_left, faults_left>>

\* lines 115-128 and inventory_runner lines 41-57: the account's config and
\* session; assuming the role may raise
BeginAccount ==
    /\ pc = "loop"
    /\ idx <= Len(accounts)
    /\ start_time' = clock
    /\ \E assumed \in BOOLEAN :
          IF Truthy(role_arn) /\ ~assumed
          THEN /\ pc' = "except"
               /\ UNCHANGED <<region_i, sheet_i>>
          ELSE /\ pc' = "scan"
               /\ region_i' = 1
               /\ sheet_i' = 1
    /\ all_resources' = <<>>
    /\ scan_log' = <<>>
    /\ UNCHANGED <<clock, durable, environment, runs_left, sweeps_left,
                   faults_left, accounts, idx, total_resources,
                   successful_accounts, failed_accounts, persist_locals,
                   resource_count, sweep, before>>

(***************************************************************************)
(* inventory_runner.run_inventory_scan                                     *)
(***************************************************************************)
\* items if isinstance(items, list) else [items]
AsList(items) == IF items.kind = "list" THEN items.l ELSE <<items>>

RECURSIVE Extended(_)
\* resources after resources.extend(...) of each value in turn
Extended(values) ==
    IF values = <<>> THEN <<>>
    ELSE AsList(Head(values)) \o Extended(Tail(values))

\* lines 86-96: the raw items of the pair; the single call is made when the
\* paginator raised, and extends what the pages already gave
Fetched(answer) ==
    Extended(answer.pages) \o
    (IF ~answer.paged /\ answer.single_ok THEN AsList(answer.single)
     ELSE <<>>)

\* the pair's fetch raises: no client, or the paginator and the single call
\* both raise
FetchRaises(answer) ==
    \/ ~answer.client
    \/ ~answer.paged /\ ~answer.single_ok

\* lines 99-110: how many raw items are appended before one raises
Appended(raw) ==
    LET bad == {k \in 1..Len(raw) : ExtractRaises(raw[k])}
    IN  IF bad = {} THEN Len(raw)
        ELSE (CHOOSE k \in bad : \A j \in bad : k <= j) - 1

\* the first pair of the region after region_i
NextRegion == <<region_i + 1, 1>>

\* the position after (region_i, sheet_i) in the walk
NextPair ==
    IF sheet_i < Len(sheets) THEN <<region_i, sheet_i + 1>>
    ELSE <<region_i + 1, 1>>

\* lines 69-119: one (region, sheet) of the walk
ScanPair ==
    /\ pc = "scan"
    /\ region_i <= Len(regions)
    /\ sheet_i <= Len(sheets)
    /\ \E a \in answers :
          LET answer == ProviderAnswers[a]
              sheet == sheets[sheet_i]
              region == regions[region_i]
              resource_type == RGet(sheet, "name", sheet.service)
              raw == Fetched(answer)
              n == Appended(raw)
              got == [k \in 1..n |->
                        resource_data(raw[k], resource_type, region,
                                      sheet.service)]
          IN  IF ~answer.client
              THEN /\ scan_log' = Append(scan_log,
                        [region_i |-> region_i, sheet_i |-> sheet_i,
                         answer |-> a,
                         outcome |-> "error", got |-> <<>>, slept |-> FALSE])
                   /\ UNCHANGED all_resources
              ELSE IF ~answer.method
              THEN /\ scan_log' = Append(scan_log,
                        [region_i |-> region_i, sheet_i |-> sheet_i,
                         answer |-> a,
                         outcome |-> "skipped", got |-> <<>>, slept |-> FALSE])
                   /\ UNCHANGED all_resources
              ELSE IF FetchRaises(answer)
              THEN /\ scan_log' = Append(scan_log,
                        [region_i |-> region_i, sheet_i |-> sheet_i,
                         answer |-> a,
                         outcome |-> "error", got |-> <<>>, slept |-> FALSE])
                   /\ UNCHANGED all_resources
              ELSE /\ all_resources' = all_resources \o got
                   /\ scan_log' = Append(scan_log,
                        [region_i |-> region_i, sheet_i |-> sheet_i,
                         answer |-> a,
                         outcome |-> IF n < Len(raw) THEN "error" ELSE "ok",
                         got |-> got, slept |-> n = Len(raw)])
    /\ region_i' = NextPair[1]
    /\ sheet_i' = NextPair[2]
    /\ UNCHANGED <<clock, durable, environment, runs_left, sweeps_left,
                   faults_left, pc, main_locals, persist_locals,
                   resource_count, sweep, before>>

\* line 121: the walk is over, the scan returns all_resources
ScanReturn ==
    /\ pc = "scan"
    /\ region_i > Len(regions)
    /\ pc' = "persist"
    /\ UNCHANGED <<clock, durable, environment, runs_left, sweeps_left,
                   faults_left, main_locals, scan_locals, persist_locals,
                   resource_count, sweep, before>>

(***************************************************************************)
(* data_processor.process_and_store_resources                              *)
(***************************************************************************)
\* lines 69-112, once timestamp is taken
items_to_write ==
    [k \in 1..Len(all_resources) |->
        Item(all_resources[k], account_id, isoformat(now))]

\* the item alone, in place of every row
PutOnly(rows, item) == [k \in {KeyOf(item)} |-> item]

\* the PutRequest of an item: the row of its primary key is replaced
Put(rows, item) ==
    [k \in DOMAIN rows \cup {KeyOf(item)} |->
        IF k = KeyOf(item) THEN item ELSE rows[k]]

RECURSIVE PutAll(_, _)
\* the PutRequests at positions req of items_to_write, in order
PutAll(rows, req) ==
    IF req = <<>> THEN rows
    ELSE PutAll(Put(rows, items_to_write[Head(req)]), Tail(req))

RECURSIVE Pick(_, _)
\* the entries of req at the slots S, in order
Pick(req, S) ==
    IF req = <<>> THEN <<>>
    ELSE (IF 1 \in S THEN <<Head(req)>> ELSE <<>>) \o
         Pick(Tail(req), {k - 1 : k \in S \ {1}})

\* the slots of a request the store may report unprocessed: any of a
\* small request; of a longer one none, all, all but the first or the last
UnprocessedSlots(req) ==
    IF Len(req) <= SmallRequest THEN SUBSET (1..Len(req))
    ELSE {k..Len(req) : k \in {1, 2, Len(req), Len(req) + 1}}

\* items_to_write[i:], as positions
Rest(i) == [k \in 1..(Len(all_resources) - i) |-> i + k]

\* items_to_write[i:i + batch_size], as positions
Batch(i) ==
    [k \in 1..(IF Len(all_resources) - i < batch_size
               THEN Len(all_resources) - i ELSE batch_size) |-> i + k]

\* the snapshot body (lines 58-63)
SnapshotBody(acct, timestamp, resources) ==
    [accountId |-> acct, timestamp |-> timestamp,
     resourceCount |-> Len(resources), resources |-> resources]

\* no list counts as empty
Never(resources) == FALSE

\* line 46: not resources
IsEmpty(resources) == resources = <<>>

\* lines 46-66: nothing to do for an empty list; else take now and write
\* the snapshot, which may raise
PersistStart ==
    /\ pc = "persist"
    /\ before' = [table |-> table, bucket |-> bucket]
    /\ calls' = NoCalls
    /\ IF IsEmpty(all_resources)
       THEN /\ resource_count' = 0
            /\ pc' = "status"
            /\ UNCHANGED <<clock, now, bucket, batch_i>>
       ELSE /\ clock' = clock + 1
            /\ now' = clock + 1
            /\ UNCHANGED resource_count
            /\ \E put_ok \in BOOLEAN :
                  IF put_ok
                  THEN /\ bucket' =
                            LET key == s3_key_of(clock + 1, account_id)
                            IN  [k \in DOMAIN bucket \cup {key} |->
                                    IF k = key
                                    THEN SnapshotBody(account_id,
                                             isoformat(clock + 1),
                                             all_resources)
                                    ELSE bucket[k]]
                       /\ batch_i' = 0
                       /\ pc' = "batch"
                  ELSE /\ pc' = "except"
                       /\ UNCHANGED <<bucket, batch_i>>
    /\ UNCHANGED <<table, app_table, environment, runs_left, sweeps_left,
                   faults_left, main_locals, region_i, sheet_i,
                   all_resources, scan_log, unprocessed, retry_count,
                   sweep>>

\* the i of the batch under way
SameBatch == batch_i

\* line 116: the i of the batch after the one under way
NextBatch == batch_i + batch_size

\* the summary after one more call, of request req, that accepted the
\* positions acc
Called(req, retry, acc) ==
    [n |-> calls.n + 1,
     in_batch |-> IF retry = 0 THEN 1 ELSE calls.in_batch + 1,
     batches |-> IF retry = 0 THEN calls.batches + 1 ELSE calls.batches,
     initial |-> IF retry = 0 THEN calls.initial \o req ELSE calls.initial,
     last |-> req,
     accepted |-> calls.accepted \cup {acc[k] : k \in 1..Len(acc)},
     errors |-> calls.errors, dropped |-> calls.dropped]

\* one batch_write_item call for the request req (positions), the retry-th
\* of its batch: it raises (line 134 goes on to the next batch), or puts
\* all but the slots it reports unprocessed
WriteCall(req, retry) ==
    \/ /\ faults_left > 0
       /\ faults_left' = faults_left - 1
       /\ calls' = [Called(req, retry, <<>>) EXCEPT
                        !.errors = @ \cup {batch_i}]
       /\ batch_i' = NextBatch
       /\ pc' = "batch"
       /\ UNCHANGED <<table, unprocessed, retry_count>>
    \/ \E U \in UnprocessedSlots(req) :
          /\ U # {} => faults_left > 0
          /\ faults_left' = IF U # {} THEN faults_left - 1 ELSE faults_left
          /\ table' = PutAll(table, Pick(req, (1..Len(req)) \ U))
          /\ unprocessed' = Pick(req, U)
          /\ retry_count' = retry
          /\ calls' = Called(req, retry, Pick(req, (1..Len(req)) \ U))
          /\ pc' = "retry"
          /\ UNCHANGED batch_i

\* lines 116-126: the first call of a batch
BatchWrite ==
    /\ pc = "batch"
    /\ batch_i < Len(all_resources)
    /\ WriteCall(Batch(batch_i), 0)
    /\ UNCHANGED <<clock, bucket, app_table, environment, runs_left,
                   sweeps_left, main_locals, scan_locals, now, resource_count,
                   sweep, before>>

\* the request of the latest call, whole
LastRequest == calls.last

\* line 130: RequestItems of a retry
RetryRequest == unprocessed

\* lines 127-132: a retry, of what the last response left unprocessed
RetryWrite ==
    /\ pc = "retry"
    /\ unprocessed # <<>>
    /\ retry_count < 3
    /\ WriteCall(RetryRequest, retry_count + 1)
    /\ UNCHANGED <<clock, bucket, app_table, environment, runs_left,
                   sweeps_left, main_locals, scan_locals, now, resource_count,
                   sweep, before>>

\* line 127 when the loop condition is false: on to the next batch, with
\* nothing printed; what is still unprocessed is left behind
BatchDone ==
    /\ pc = "retry"
    /\ ~(unprocessed # <<>> /\ retry_count < 3)
    /\ batch_i' = NextBatch
    /\ calls' = [calls EXCEPT
                    !.dropped = @ \cup {unprocessed[k] :
                                           k \in 1..Len(unprocessed)}]
    /\ pc' = "batch"
    /\ UNCHANGED <<clock, durable, environment, runs_left, sweeps_left,
                   faults_left, main_locals, scan_locals, now, unprocessed,
                   retry_count, resource_count, sweep, before>>

\* how many items the responses have accepted
Accepted == Cardinality(calls.accepted)

\* line 139: len(resources)
Returned == Len(all_resources)

\* lines 137-139
PersistReturn ==
    /\ pc = "batch"
    /\ batch_i >= Len(all_resources)
    /\ resource_count' = Returned
    /\ pc' = "status"
    /\ UNCHANGED <<clock, durable, environment, runs_left, sweeps_left,
                   faults_left, main_locals, scan_locals, persist_locals,
                   sweep, before>>

(***************************************************************************)
(* main.py: the rest of the account loop                                   *)
(***************************************************************************)
\* lines 140-152: the status update may raise
UpdateSuccess ==
    /\ pc = "status"
    /\ \E updated \in BOOLEAN :
          IF updated
          THEN /\ app_table' = update_account_sync_status(app_table,
                      account_id, "success", resource_count,
                      clock - start_time)
               /\ total_resources' = total_resources + resource_count
               /\ successful_accounts' = successful_accounts + 1
               /\ idx' = idx + 1
               /\ pc' = "loop"
          ELSE /\ pc' = "except"
               /\ UNCHANGED <<app_table, total_resources, successful_accounts,
                              idx>>
    /\ UNCHANGED <<clock, table, bucket, environment, runs_left, sweeps_left,
                   faults_left, accounts, failed_accounts, start_time,
                   scan_locals, persist_locals, resource_count, sweep,
                   before>>

\* lines 154-164: the handler; its own status update is not guarded, so
\* when it raises the exception leaves main
HandleException ==
    /\ pc = "except"
    /\ failed_accounts' = failed_accounts + 1
    /\ \E updated \in BOOLEAN :
          IF updated
          THEN /\ app_table' = update_account_sync_status(app_table,
                      account_id, "failed", 0, clock - start_time)
               /\ idx' = idx + 1
               /\ pc' = "loop"
          ELSE /\ pc' = "crashed"
               /\ UNCHANGED <<app_table, idx>>
    /\ UNCHANGED <<clock, table, bucket, environment, runs_left, sweeps_left,
                   faults_left, accounts, total_resources,
                   successful_accounts, start_time, scan_locals,
                   persist_locals, resource_count, sweep, before>>

\* lines 166-172: the loop is over, the summary is printed, main returns
FinishMain ==
    /\ pc = "loop"
    /\ idx > Len(accounts)
    /\ pc' = "idle"
    /\ accounts' = <<>>
    /\ idx' = 0
    /\ Forgotten
    /\ UNCHANGED <<clock, durable, environment, runs_left, sweeps_left,
                   faults_left, sweep>>

(***************************************************************************)
(* data_processor.mark_missing_resources                                   *)
(***************************************************************************)
Rank(c) == CHOOSE k \in 1..Len(Ascii) : Ascii[k] = c

\* s sorts before t: the order of a query's items by sort key
Before(s, t) ==
    LET m == IF Len(s) < Len(t) THEN Len(s) ELSE Len(t)
        differ == {k \in 1..m : s[k] # t[k]}
    IN  IF differ = {} THEN Len(s) < Len(t)
        ELSE LET k == CHOOSE k \in differ : \A j \in differ : k <= j
             IN  Rank(s[k]) < Rank(t[k])

\* lines 164-172: the items of the account whose sk begins with INVENTORY#,
\* projected on sk, resourceArn and discoveryStatus, in sort-key order
Query(rows, acct) ==
    LET keys == {key \in DOMAIN rows :
                    /\ key[1] = pk_of(acct)
                    /\ StartsWith(key[2], s_INVENTORY)}
        pos(key) == 1 + Cardinality({other \in keys : Before(other[2], key[2])})
    IN  [k \in 1..Cardinality(keys) |->
            LET key == CHOOSE key \in keys : pos(key) = k
                row == rows[key]
            IN  [f \in DOMAIN row \cap {"sk", "resourceArn", "discoveryStatus"}
                    |-> row[f]]]

\* an item with an ARN, whatever its status
HasArn(item) == Truthy(RGet(item, "resourceArn", <<>>))

\* lines 174-177: an item is kept when it has an ARN and its status, active
\* when it has none, is active
IsExisting(item) ==
    /\ Truthy(RGet(item, "resourceArn", <<>>))
    /\ RGet(item, "discoveryStatus", "active") = "active"

\* the status the sweep sets (line 196)
SweptStatus == "missing"

\* lines 188-199: SET discoveryStatus and lastDiscoveredAt on the row of
\* (ACCOUNT#<acct>, sk); update_item creates the row when there is none
UpdateMissing(rows, acct, sk, timestamp) ==
    LET key == <<pk_of(acct), sk>>
        old == IF key \in DOMAIN rows THEN rows[key]
               ELSE [pk |-> key[1], sk |-> key[2]]
        new == [f \in DOMAIN old \cup
                     {"discoveryStatus", "lastDiscoveredAt"} |->
                  IF f = "discoveryStatus" THEN SweptStatus
                  ELSE IF f = "lastDiscoveredAt" THEN timestamp
                  ELSE old[f]]
    IN  [k \in DOMAIN rows \cup {key} |-> IF k = key THEN new ELSE rows[k]]

\* the ARNs of the account's rows
ArnsOf(rows, acct) ==
    {rows[key].resourceArn : key \in {k \in DOMAIN rows : k[1] = pk_of(acct)}}

\* the account ids of the registry
AccountIds == {registry[k].accountId : k \in 1..Len(registry)}

\* lines 160-181: a call of mark_missing_resources; the query may raise
SweepStart ==
    /\ pc \in {"idle", "crashed"}
    /\ sweeps_left > 0
    /\ sweeps_left' = sweeps_left - 1
    /\ before' = [table |-> table, bucket |-> bucket]
    /\ pc' = "sweep"
    /\ \E acct \in AccountIds :
       \E discovered_arns \in SUBSET ArnsOf(table, acct) :
       \E queried \in BOOLEAN :
          IF queried
          THEN /\ sweep' = [account_id |-> acct,
                            discovered_arns |-> discovered_arns,
                            existing_resources |->
                                SelectSeq(Query(table, acct), IsExisting),
                            k |-> 1,
                            timestamp |-> isoformat(clock + 1),
                            missing_count |-> 0,
                            result |-> "running"]
               /\ clock' = clock + 1
          ELSE /\ sweep' = [NoSweep EXCEPT !.account_id = acct,
                                           !.discovered_arns = discovered_arns,
                                           !.result = "raised"]
               /\ UNCHANGED clock
    /\ UNCHANGED <<durable, environment, runs_left, faults_left, main_locals,
                   scan_locals, persist_locals, resource_count>>

\* lines 183-200: one item of existing_resources; update_item may raise,
\* and nothing catches it
SweepItem ==
    /\ pc = "sweep"
    /\ sweep.result = "running"
    /\ sweep.k <= Len(sweep.existing_resources)
    /\ LET item == sweep.existing_resources[sweep.k]
           arn == RGet(item, "resourceArn", <<>>)
           sk == RGet(item, "sk", <<>>)
       IN  IF arn \notin sweep.discovered_arns
           THEN \E updated \in BOOLEAN :
                   IF updated
                   THEN /\ table' = UpdateMissing(table, sweep.account_id,
                                                  sk, sweep.timestamp)
                        /\ sweep' = [sweep EXCEPT
                              !.k = @ + 1, !.missing_count = @ + 1]
                   ELSE /\ sweep' = [sweep EXCEPT !.result = "raised"]
                        /\ UNCHANGED table
           ELSE /\ sweep' = [sweep EXCEPT !.k = @ + 1]
                /\ UNCHANGED table
    /\ UNCHANGED <<clock, bucket, app_table, environment, budget, pc,
                   main_locals, scan_locals, persist_locals, resource_count,
                   before>>

\* lines 202-205: the loop is over and the call returns missing_count; or
\* the exception of the query or of an update leaves the call
SweepReturn ==
    /\ pc = "sweep"
    /\ \/ sweep.result = "raised"
       \/ sweep.k > Len(sweep.existing_resources)
    /\ sweep' = NoSweep
    /\ before' = NoBefore
    /\ pc' = "idle"
    /\ accounts' = <<>>
    /\ idx' = 0
    /\ UNCHANGED <<clock, durable, environment, budget, total_resources,
                   successful_accounts, failed_accounts, start_time,
                   scan_locals, persist_locals, resource_count>>

(***************************************************************************)
(* The specification.                                                      *)
(***************************************************************************)
Next ==
    \/ StartMain
    \/ BeginAccount
    \/ ScanPair
    \/ ScanReturn
    \/ PersistStart
    \/ BatchWrite
    \/ RetryWrite
    \/ BatchDone
    \/ PersistReturn
    \/ UpdateSuccess
    \/ HandleException
    \/ FinishMain
    \/ SweepStart
    \/ SweepItem
    \/ SweepReturn

Spec == Init /\ [][Next]_vars

(***************************************************************************)
(* Properties of persistence and of the reconciliation sweep.              *)
(***************************************************************************)
\* process_and_store_resources is running on, or has returned from, a
\* non-empty list
Persisting == pc \in {"batch", "retry", "status"} /\ all_resources # <<>>

\* process_and_store_resources has returned from a non-empty list
PersistDone == pc = "status" /\ all_resources # <<>>

\* the ARNs of the scan being persisted
ScanArns == {items_to_write[k].resourceArn : k \in 1..Len(all_resources)}

\* how many times the loop of line 116 runs for n items
Batches(n) == (n + batch_size - 1) \div batch_size

\* C1: once process_and_store_resources has returned for an account with a
\* non-empty list, every record of the account that was active before and
\* whose ARN is not among the scan's has discoveryStatus missing and
\* lastDiscoveredAt equal to the run's timestamp.
C1_PersistMarksMissing ==
    PersistDone =>
        \A key \in DOMAIN before.table :
            LET old == before.table[key]
            IN  (/\ key[1] = pk_of(account_id)
                 /\ old.discoveryStatus = "active"
                 /\ old.resourceArn \notin ScanArns)
                => /\ table[key].discoveryStatus = "missing"
                   /\ table[key].lastDiscoveredAt = isoformat(now)

\* a record of the swept account that was active when the sweep began and
\* whose ARN is not in discovered_arns
SweepTarget(key) ==
    /\ key \in DOMAIN before.table
    /\ key[1] = pk_of(sweep.account_id)
    /\ before.table[key].discoveryStatus = "active"
    /\ before.table[key].resourceArn \notin sweep.discovered_arns

\* mark_missing_resources has gone through all of existing_resources
SweepDone ==
    /\ pc = "sweep"
    /\ sweep.result = "running"
    /\ sweep.k > Len(sweep.existing_resources)

\* C2: all through a call of mark_missing_resources the table has the rows
\* it had when the call began (none is created); a row differs from what it
\* was only if it is a record of the given account that was active with an
\* ARN outside discovered_arns, and then only in being missing with a new
\* lastDiscoveredAt; a row that was missing is as it was; and when the call
\* has gone through its items every such record is missing.
C2_SweepFrame ==
    pc = "sweep" =>
        /\ DOMAIN table = DOMAIN before.table
        /\ \A key \in DOMAIN table :
              \/ table[key] = before.table[key]
              \/ /\ SweepTarget(key)
                 /\ table[key] =
                       [before.table[key] EXCEPT
                           !.discoveryStatus = "missing",
                           !.lastDiscoveredAt = sweep.timestamp]
        /\ \A key \in DOMAIN table :
              before.table[key].discoveryStatus = "missing"
              => table[key] = before.table[key]
        /\ SweepDone =>
              \A key \in DOMAIN table :
                  SweepTarget(key) => table[key].discoveryStatus = "missing"

\* a sweep that is through, has set a record missing, has left alone a
\* record of the account that was missing already, and has left alone the
\* records of another account
C2_Witness ==
    /\ SweepDone
    /\ \E key \in DOMAIN table :
          SweepTarget(key) /\ table[key] # before.table[key]
    /\ \E key \in DOMAIN table :
          /\ key[1] = pk_of(sweep.account_id)
          /\ before.table[key].discoveryStatus = "missing"
    /\ \E key \in DOMAIN table :
          /\ key[1] # pk_of(sweep.account_id)
          /\ table[key].discoveryStatus = "active"

\* the record at key was missing when this persist began, and the item at
\* position p of this scan has its account, resource type and ARN
Rediscovered(key, p) ==
    /\ key \in DOMAIN before.table
    /\ before.table[key].discoveryStatus = "missing"
    /\ before.table[key].accountId = items_to_write[p].accountId
    /\ before.table[key].resourceType = items_to_write[p].resourceType
    /\ before.table[key].resourceArn = items_to_write[p].resourceArn

\* C3: when a batch_write_item response has accepted an item whose account,
\* resource type and ARN are those of a record that was missing, the item
\* has the record's primary key and the record is active, discovered at
\* this run's timestamp.
C3_Rediscovery ==
    Persisting =>
        \A p \in calls.accepted :
            \A key \in DOMAIN before.table :
                Rediscovered(key, p)
                => /\ KeyOf(items_to_write[p]) = key
                   /\ table[key].discoveryStatus = "active"
                   /\ table[key].lastDiscoveredAt = isoformat(now)

\* a missing record has been written again
C3_Witness ==
    /\ Persisting
    /\ \E p \in calls.accepted :
          \E key \in DOMAIN before.table :
              /\ Rediscovered(key, p)
              /\ table[key].discoveryStatus = "active"

\* C4: when process_and_store_resources has returned from an empty list it
\* has returned 0, has made no batch_write_item call, and the bucket and
\* the table are as they were when it was called.
C4_EmptyListNoEffect ==
    (pc = "status" /\ all_resources = <<>>) =>
        /\ resource_count = 0
        /\ calls = NoCalls
        /\ bucket = before.bucket
        /\ table = before.table

\* it has returned from an empty list while the bucket holds a snapshot and
\* the table an active record of the account
C4_Witness ==
    /\ pc = "status"
    /\ all_resources = <<>>
    /\ bucket # <<>>
    /\ \E key \in DOMAIN table :
          /\ key[1] = pk_of(account_id)
          /\ table[key].discoveryStatus = "active"


(***************************************************************************)
(* Properties of the scan and of the account loop.                         *)
(***************************************************************************)
RECURSIVE Collected(_)
\* what the pairs of a log appended to all_resources, one after the other
Collected(log) ==
    IF log = <<>> THEN <<>> ELSE Head(log).got \o Collected(Tail(log))

\* C5: all through an account's scan, whatever a pair came to (an
\* exception, an unknown method), the pairs attempted so far are the first
\* pairs of the walk over regions and, within a region, sheets, none left
\* out; the walk is at the pair after them; all_resources is what they
\* collected, in that order; and the scan returns only once every pair has
\* been attempted.
C5_PairIsolation ==
    pc \in {"scan", "persist"} =>
        /\ \A i \in 1..Len(scan_log) :
              /\ scan_log[i].region_i = ((i - 1) \div Len(sheets)) + 1
              /\ scan_log[i].sheet_i = ((i - 1) % Len(sheets)) + 1
        /\ Len(scan_log) = (region_i - 1) * Len(sheets) + (sheet_i - 1)
        /\ all_resources = Collected(scan_log)
        /\ pc = "persist" => Len(scan_log) = Len(regions) * Len(sheets)

\* a scan returns what the pairs before and after a pair that raised
\* collected
C5_Witness ==
    /\ pc = "persist"
    /\ \E i, j, k \in 1..Len(scan_log) :
          /\ i < j
          /\ j < k
          /\ scan_log[i].got # <<>>
          /\ scan_log[j].outcome = "error"
          /\ scan_log[k].got # <<>>
    /\ Len(all_resources) > 1

\* C6: when main is over, by returning or by an exception, every account
\* of the run has been scanned, and the account whose pipeline raised last
\* is on record as failed with resource count 0.
C6_AccountIsolation ==
    pc \in {"idle", "crashed"} =>
        \A k \in 1..Len(accounts) :
            /\ k <= idx
            /\ k = idx =>
                  LET key == <<pk_of(accounts[k].accountId), s_METADATA>>
                  IN  /\ key \in DOMAIN app_table
                      /\ app_table[key].lastSyncStatus = "failed"
                      /\ app_table[key].lastSyncResourceCount = 0

\* C7: an account's pipeline that has a non-empty list reaches the handler
\* of main only after process_and_store_resources has written every batch
\* and returned the count: a snapshot write that fails does not take it
\* there.
C7_SnapshotFailureNotFatal ==
    (pc = "except" /\ all_resources # <<>>) =>
        /\ calls.batches = Batches(Len(all_resources))
        /\ resource_count = Len(all_resources)

\* C8: a batch has at most 3 calls after its first; a retry's request is
\* what the response before it left unprocessed, none of it accepted
\* already; and a persist of N items makes at most 4 * ceil(N / 25) calls.
C8_BoundedRetries ==
    [][/\ (pc = "retry" /\ calls'.n = calls.n + 1) =>
             /\ calls'.last = unprocessed
             /\ \A k \in 1..Len(calls'.last) :
                   calls'.last[k] \notin calls.accepted
             /\ calls'.in_batch = calls.in_batch + 1
       /\ (pc' \in {"batch", "retry", "status"}) =>
             /\ calls'.in_batch <= 4
             /\ retry_count' <= 3
             /\ calls'.n <= 4 * Batches(Len(all_resources'))]_vars

\* three retries have been made and an item is unprocessed still
C8_Witness ==
    /\ pc = "retry"
    /\ calls.in_batch = 4
    /\ retry_count = 3
    /\ unprocessed # <<>>
    /\ calls.n = 4 * Batches(Len(all_resources))

\* C9: no request has more than 25 items; the first requests of the
\* batches so far, one after the other, are the items 1, 2, ... in order,
\* each batch but the last of 25; and when the persist of N items is over
\* there have been ceil(N / 25) batches, holding all N.
C9_BatchSize ==
    pc \in {"batch", "retry", "status"} =>
        /\ Len(calls.last) <= 25
        /\ calls.initial = [k \in 1..Len(calls.initial) |-> k]
        /\ calls.batches = Batches(Len(calls.initial))
        /\ Len(calls.initial) <= Len(all_resources)
        /\ pc = "status" =>
              /\ Len(calls.initial) = Len(all_resources)
              /\ calls.batches = Batches(Len(all_resources))

\* a persist of more than two batches' items is over, in three batches
C9_Witness ==
    /\ PersistDone
    /\ Len(all_resources) > 2 * batch_size
    /\ calls.batches = 3
    /\ Len(calls.last) < batch_size

\* C10: when mark_missing_resources is left because the update of one
\* record raised, every other record of the account that was active with
\* an ARN outside discovered_arns is missing.
C10_SweepBestEffort ==
    (pc = "sweep" /\ sweep.result = "raised" /\ sweep.k >= 1) =>
        \A key \in DOMAIN table :
            (/\ SweepTarget(key)
             /\ key[2] # sweep.existing_resources[sweep.k].sk)
            => table[key].discoveryStatus = "missing"


(***************************************************************************)
(* Properties of what a run records.                                       *)
(***************************************************************************)
\* the SyncStatus row of the account main has just finished with
LastRow == app_table[<<pk_of(accounts[idx - 1].accountId), s_METADATA>>]

\* main has finished with an account and is at the head of the loop
AccountDone == pc = "loop" /\ idx > 1

\* C11: process_and_store_resources returns from a non-empty list with the
\* length of the list, whatever the batch_write_item calls came to, and
\* when the account is then recorded as success the count recorded is that
\* length.
C11_ReturnsInputCount ==
    /\ PersistDone => resource_count = Len(all_resources)
    /\ (AccountDone /\ all_resources # <<>>) =>
          (LastRow.lastSyncStatus = "success"
           => LastRow.lastSyncResourceCount = Len(all_resources))

\* an account is recorded as success with the length of its list although
\* not every item was accepted
C11_Witness ==
    /\ AccountDone
    /\ all_resources # <<>>
    /\ LastRow.lastSyncStatus = "success"
    /\ LastRow.lastSyncResourceCount = Len(all_resources)
    /\ Cardinality(calls.accepted) < Len(all_resources)


\* the run of main has persisted the scan of account 111122223333 in which
\* describe_instances returned the reservation of the two instances and
\* list_functions nothing
TwoInstancesStored ==
    /\ PersistDone
    /\ account_id = s_acct_A
    /\ regions = <<s_us_east_1>>
    /\ Len(scan_log) = 2
    /\ ProviderAnswers[scan_log[1].answer].pages =
          <<PyList(<<raw_reservation>>)>>
    /\ scan_log[1].outcome = "ok"
    /\ scan_log[2].got = <<>>
    /\ Accepted = Len(all_resources)

\* C12: after that run the table holds two records, of distinct primary
\* keys, named web-1 and i-abc, both active, and the bucket one object,
\* under raw/<date>/111122223333/inventory.json, with resourceCount 2.
C12_TwoInstancesEndToEnd ==
    TwoInstancesStored =>
        /\ \E k1, k2 \in DOMAIN table :
              /\ k1 # k2
              /\ DOMAIN table = {k1, k2}
              /\ table[k1].name = s_web_1
              /\ table[k2].name = s_i_abc
              /\ table[k1].discoveryStatus = "active"
              /\ table[k2].discoveryStatus = "active"
        /\ DOMAIN bucket = {s3_key_of(now, s_acct_A)}
        /\ bucket[s3_key_of(now, s_acct_A)].resourceCount = 2


\* every provider call of the latest scan raised and was isolated
AllCallsFailed ==
    /\ scan_log # <<>>
    /\ \A i \in 1..Len(scan_log) : scan_log[i].outcome = "error"

\* what main recorded for the first account of the run
RecordedOutcome ==
    [status |-> LastRow.lastSyncStatus,
     count |-> LastRow.lastSyncResourceCount,
     succeeded |-> successful_accounts,
     failed |-> failed_accounts]

\* C13: an account whose every provider call failed ends with a recorded
\* outcome (status, count, succeeded and failed counters) that differs from
\* the one an account with an empty resource list ends with, which is
\* success, 0, one more succeeded, no more failed.
C13_EmptyDiffersFromFailed ==
    (AccountDone /\ idx = 2 /\ AllCallsFailed) =>
        RecordedOutcome #
            [status |-> "success", count |-> 0, succeeded |-> 1, failed |-> 0]


\* no raw item the provider gives in this behaviour carries an ARN, so every
\* row of the table got its resourceArn from generate_resource_arn's second
\* branch
NoNativeArn ==
    \A a \in answers :
        LET raw == Fetched(ProviderAnswers[a])
        IN  \A k \in 1..Len(raw) :
                ~ExtractRaises(raw[k]) =>
                    extract_resource_identifiers(raw[k], s_EC2Instances,
                        s_us_east_1).resourceArn = <<>>

\* the row is of the resource: same account, region, type and id
SameResource(row, resource) ==
    /\ row.accountId = account_id
    /\ row.region = resource.region
    /\ row.resourceType = resource.resourceType
    /\ row.resourceId = resource.resourceId

\* C14: every resource a write has accepted is stored under the ARN
\* arn:aws:<service>:<region>:<account>:<type>/<id> when its resourceArn was
\* empty and under its own resourceArn otherwise; and when an earlier run
\* stored the same (service, region, account, type, id), also without an
\* ARN, that row has the identical ARN and primary key.
C14_ArnSynthesis ==
    Persisting =>
        \A k \in calls.accepted :
            LET r == all_resources[k]
                expected ==
                    IF r.resourceArn # <<>> THEN r.resourceArn
                    ELSE <<"a", "r", "n", ":", "a", "w", "s", ":">> \o
                         r.service \o <<":">> \o r.region \o <<":">> \o
                         account_id \o <<":">> \o r.resourceType \o
                         <<"/">> \o r.resourceId
                key == <<s_ACCOUNT \o account_id,
                         s_INVENTORY \o r.resourceType \o <<"#">> \o expected>>
            IN  /\ key \in DOMAIN table
                /\ table[key].resourceArn = expected
                /\ NoNativeArn =>
                      \A old \in DOMAIN before.table :
                          SameResource(before.table[old], r) =>
                              /\ old = key
                              /\ before.table[old].resourceArn = expected

C14_Witness ==
    /\ Persisting
    /\ NoNativeArn
    /\ \E k \in calls.accepted :
          /\ all_resources[k].resourceArn = <<>>
          /\ all_resources[k].resourceId # <<>>
          /\ \E old \in DOMAIN before.table :
                SameResource(before.table[old], all_resources[k])


\* C15 as the spec words it: a bare string shaped like an ARN gets itself as
\* resourceArn and, as resourceId, what follows its last '/' or ':',
\* whichever comes later; any other bare string gets an empty resourceArn
\* and itself as resourceId; name is resourceId.
C15_FinalSegmentOfEither ==
    \A k \in 1..Len(all_resources) :
        LET r == all_resources[k]
            s == r.rawData.s
        IN  r.rawData.kind = "str" =>
                /\ r.name = r.resourceId
                /\ IF Len(s) >= 4 /\ SubSeq(s, 1, 4) = <<"a", "r", "n", ":">>
                   THEN /\ r.resourceArn = s
                        /\ \E i \in 1..Len(s) :
                              /\ s[i] \in {"/", ":"}
                              /\ r.resourceId = SubSeq(s, i + 1, Len(s))
                              /\ \A j \in (i + 1)..Len(s) :
                                    s[j] \notin {"/", ":"}
                   ELSE /\ r.resourceArn = <<>>
                        /\ r.resourceId = s

\* C15: a bare string shaped like an ARN gets itself as resourceArn and, as
\* resourceId, what follows its last '/' when it has a '/' and what follows
\* its last ':' when it has none; any other bare string gets an empty
\* resourceArn and itself as resourceId; name is resourceId.
C15_FinalSegment ==
    \A k \in 1..Len(all_resources) :
        LET r == all_resources[k]
            s == r.rawData.s
            sep == IF \E j \in 1..Len(s) : s[j] = "/" THEN "/" ELSE ":"
        IN  r.rawData.kind = "str" =>
                /\ r.name = r.resourceId
                /\ IF Len(s) >= 4 /\ SubSeq(s, 1, 4) = <<"a", "r", "n", ":">>
                   THEN /\ r.resourceArn = s
                        /\ \E i \in 1..Len(s) :
                              /\ s[i] = sep
                              /\ r.resourceId = SubSeq(s, i + 1, Len(s))
                              /\ \A j \in (i + 1)..Len(s) : s[j] # sep
                   ELSE /\ r.resourceArn = <<>>
                        /\ r.resourceId = s

C15_Witness ==
    /\ pc = "persist"
    /\ \E k \in 1..Len(all_resources) :
          /\ all_resources[k].rawData = PyStr(s_arn_path_colon)
          /\ all_resources[k].resourceId = <<"p", ":", "3">>
    /\ \E k \in 1..Len(all_resources) :
          /\ all_resources[k].rawData = PyStr(s_arn_colon_only)
          /\ all_resources[k].resourceId = <<"q">>
    /\ \E k \in 1..Len(all_resources) :
          /\ all_resources[k].rawData = PyStr(s_no_arn)
          /\ all_resources[k].resourceId = s_no_arn


\* C16: a failure to assume the account's role is met only for an account
\* with a roleArn, before any provider call and any write of the account;
\* and once the handler has run for it the account's SyncStatus row says
\* failed, with count 0.
C16_RoleFailureIsHard ==
    /\ (pc \in {"except", "crashed"} /\ scan_log = <<>>) =>
          /\ Truthy(role_arn)
          /\ all_resources = <<>>
    /\ (pc = "crashed" /\ scan_log = <<>>) =>
          /\ <<s_ACCOUNT \o account_id, s_METADATA>> \in DOMAIN app_table
          /\ app_table[<<s_ACCOUNT \o account_id,
                         s_METADATA>>].lastSyncStatus = "failed"
    /\ (AccountDone /\ scan_log = <<>>) =>
          /\ LastRow.lastSyncStatus = "failed"
          /\ LastRow.lastSyncResourceCount = 0


\* C17: every step that adds or changes a row of the inventory table (a
\* write of process_and_store_resources, an update of
\* mark_missing_resources) or of the app table (a SyncStatus update) does
\* so only under the pk ACCOUNT#<accountId> of the account the running
\* call was given, so rows of different accountIds never share a primary
\* key.
C17_OwnPartition ==
    [][LET owner == IF pc = "sweep" THEN sweep.account_id ELSE account_id
       IN  /\ \A key \in DOMAIN table' :
                 (key \notin DOMAIN table \/ table'[key] # table[key]) =>
                     /\ key[1] = <<"A", "C", "C", "O", "U", "N", "T", "#">>
                                 \o owner
                     /\ table'[key].pk = key[1]
           /\ \A key \in DOMAIN app_table' :
                 (key \notin DOMAIN app_table
                  \/ app_table'[key] # app_table[key]) =>
                     key[1] = <<"A", "C", "C", "O", "U", "N", "T", "#">>
                              \o owner
           /\ DOMAIN table \subseteq DOMAIN table'
           /\ DOMAIN app_table \subseteq DOMAIN app_table']_vars

C17_Witness ==
    /\ \E k1, k2 \in DOMAIN table :
          /\ k1[1] = s_ACCOUNT \o s_acct_A
          /\ k2[1] = s_ACCOUNT \o s_acct_B
          /\ table[k1].accountId = s_acct_A
          /\ table[k2].accountId = s_acct_B
          /\ table[k2].discoveryStatus = "missing"
    /\ \E k1, k2 \in DOMAIN app_table :
          /\ k1[1] = s_ACCOUNT \o s_acct_A
          /\ k2[1] = s_ACCOUNT \o s_acct_B


\* C18: in a scan, every pair but the last whose client was created, so
\* that its call was made or skipped for an unknown method, is followed
\* by the fixed delay before the next pair's call.
C18_DelayBetweenCalls ==
    \A i \in 1..(Len(scan_log) - 1) :
        ProviderAnswers[scan_log[i].answer].client => scan_log[i].slept


\* C19: for every pair of the scan that came to an end without an error
\* and whose call has a paginated form (the paginator gave at least one
\* page, or ended without raising), the raw items collected are the pages'
\* collections one after the other, each item once, a scalar page value
\* counting as one item; nothing of a non-paginated call is among them.
C19_PagesOnly ==
    \A i \in 1..Len(scan_log) :
        LET answer == ProviderAnswers[scan_log[i].answer]
            got == scan_log[i].got
        IN  (scan_log[i].outcome = "ok"
             /\ (answer.paged \/ answer.pages # <<>>)) =>
                [k \in 1..Len(got) |-> got[k].rawData] =
                    Extended(answer.pages)


\* C20: a record the running scan or sweep did not observe keeps its
\* lastDiscoveredAt, and a record a write of the run has stored carries
\* the run's timestamp.
C20_LastDiscoveredAt ==
    /\ pc = "sweep" =>
          \A key \in DOMAIN before.table :
              before.table[key].resourceArn \notin sweep.discovered_arns =>
                  table[key].lastDiscoveredAt =
                      before.table[key].lastDiscoveredAt
    /\ Persisting =>
          /\ \A key \in DOMAIN before.table :
                before.table[key].resourceArn \notin ScanArns =>
                    table[key].lastDiscoveredAt =
                        before.table[key].lastDiscoveredAt
          /\ \A k \in calls.accepted :
                table[KeyOf(items_to_write[k])].lastDiscoveredAt =
                    isoformat(now)


\* C21: for every item left unprocessed when its batch's retries were used
\* up, an error has been printed for that batch, no response has accepted
\* the item, the item was submitted at the head of one batch only, and
\* when the function returns every batch has been submitted.
C21_DroppedWithLoggedError ==
    Persisting =>
        /\ \A p \in calls.dropped :
              /\ ((p - 1) \div batch_size) * batch_size \in calls.errors
              /\ p \notin calls.accepted
              /\ Cardinality({k \in 1..Len(calls.initial) :
                                 calls.initial[k] = p}) = 1
        /\ PersistDone => calls.batches = Batches(Len(all_resources))


\* C22: the name of a structured raw item is the value of the first field
\* of name_keys it has; when it has none, the value of its Name tag, the
\* tags being a list of {Key, Value} pairs or a direct mapping; when it
\* has no Name tag, its resourceId.
C22_NameOfStructuredItem ==
    \A k \in 1..Len(all_resources) :
        LET r == all_resources[k]
            d == r.rawData.d
            present == {i \in 1..Len(name_keys) : name_keys[i] \in DOMAIN d}
            first == CHOOSE i \in present : \A j \in present : i <= j
            tags == IF <<"T", "a", "g", "s">> \in DOMAIN d
                    THEN d[<<"T", "a", "g", "s">>]
                    ELSE IF <<"T", "a", "g", "L", "i", "s", "t">> \in DOMAIN d
                    THEN d[<<"T", "a", "g", "L", "i", "s", "t">>]
                    ELSE PyList(<<>>)
            named == IF tags.kind # "list" THEN {}
                     ELSE {i \in 1..Len(tags.l) :
                              /\ <<"K", "e", "y">> \in DOMAIN tags.l[i].d
                              /\ tags.l[i].d[<<"K", "e", "y">>].s =
                                    <<"N", "a", "m", "e">>}
            tag == CHOOSE i \in named : \A j \in named : i <= j
        IN  r.rawData.kind = "dict" =>
                r.name =
                    IF present # {} THEN d[name_keys[first]].s
                    ELSE IF named # {}
                    THEN tags.l[tag].d[<<"V", "a", "l", "u", "e">>].s
                    ELSE IF tags.kind = "dict"
                            /\ <<"N", "a", "m", "e">> \in DOMAIN tags.d
                    THEN tags.d[<<"N", "a", "m", "e">>].s
                    ELSE r.resourceId


\* C23: in every step no record leaves the table; a record that becomes
\* missing does so in a step of mark_missing_resources; and every record
\* a step of any other operation adds or changes is active afterwards.
C23_OnlySweepMarksMissing ==
    [][table' # table =>
          /\ DOMAIN table \subseteq DOMAIN table'
          /\ \A key \in DOMAIN table' :
                LET changed == \/ key \notin DOMAIN table
                               \/ table'[key] # table[key]
                IN  /\ (changed /\ table'[key].discoveryStatus = "missing")
                           => pc = "sweep"
                    /\ (changed /\ pc # "sweep")
                           => table'[key].discoveryStatus = "active"]_vars

C23_Witness ==
    /\ pc = "sweep"
    /\ Cardinality(DOMAIN table) >= 2
    /\ \E key \in DOMAIN before.table :
          /\ before.table[key].discoveryStatus = "active"
          /\ table[key].discoveryStatus = "missing"
    /\ \E key \in DOMAIN table :
          /\ table[key].discoveryStatus = "active"
          /\ table[key].lastDiscoveredAt # isoformat(1)


\* C24: a batch_write_item call that raises, first call or retry, writes
\* nothing and sends the loop on to the next batch; no later call submits
\* an item of a batch so abandoned; the batch-write step is left only for
\* the return, with every batch submitted.
C24_RaisedBatchAbandoned ==
    [][(pc = "batch" \/ pc = "retry") =>
          /\ pc' \in {"batch", "retry", "status"}
          /\ calls'.errors # calls.errors =>
                /\ calls'.errors = calls.errors \cup {batch_i}
                /\ calls'.n = calls.n + 1
                /\ table' = table
                /\ pc' = "batch"
                /\ batch_i' = batch_i + 25
          /\ calls'.n = calls.n + 1 =>
                \A b \in calls.errors :
                \A k \in 1..Len(calls'.last) :
                    calls'.last[k] \notin (b + 1)..(b + 25)
          /\ pc' = "status" =>
                /\ calls.batches = Batches(Len(all_resources))
                /\ Len(calls.initial) = Len(all_resources)]_vars

C24_Witness ==
    /\ PersistDone
    /\ 0 \in calls.errors
    /\ calls.batches = 2
    /\ calls.n > 2
    /\ \E p \in calls.accepted : p > batch_size
    /\ \A p \in calls.accepted : p > batch_size \/ p \in 1..2


\* C25: between two accounts of the loop, and so when the loop is over,
\* the accounts gone through are counted once each: as many are counted
\* successful as have a SyncStatus row saying success, as many failed as
\* have a row saying failed, with count 0, and total_resources is the sum
\* of the counts of the rows saying success.
C25_SummaryCounts ==
    pc = "loop" =>
        LET done == 1..(idx - 1)
            row(k) == app_table[<<s_ACCOUNT \o accounts[k].accountId,
                                  s_METADATA>>]
            said(status) == {k \in done : row(k).lastSyncStatus = status}
            RECURSIVE sum(_)
            sum(S) == IF S = {} THEN 0
                      ELSE LET k == CHOOSE j \in S : TRUE
                           IN  row(k).lastSyncResourceCount + sum(S \ {k})
        IN  /\ successful_accounts + failed_accounts = idx - 1
            /\ Cardinality(said("success")) = successful_accounts
            /\ Cardinality(said("failed")) = failed_accounts
            /\ \A k \in said("failed") : row(k).lastSyncResourceCount = 0
            /\ total_resources = sum(said("success"))
            /\ idx > Len(accounts) =>
                  successful_accounts + failed_accounts = Len(accounts)

C25_Witness ==
    /\ pc = "loop"
    /\ Len(accounts) = 2
    /\ idx = 3
    /\ successful_accounts = 1
    /\ failed_accounts = 1
    /\ total_resources > 0
    /\ table # <<>>
    /\ LastRow.lastSyncStatus = "failed"

=============================================================================
